---- MODULE Spec2Model ----
(***************************************************************************)
(* A model of pdf_text_extractor: the OCR batch driver of                  *)
(* src/pdf_extractor.py and the rasterizer functions of                    *)
(* src/extract_to_image.py.                                                *)
(*                                                                         *)
(* Strings are sequences of tokens (one-character strings for file names   *)
(* and formats, longer literal pieces for the text the OCR pipeline        *)
(* builds); the empty string is <<>> and concatenation is \o.              *)
(* The PDF decoder (pdf2image), the image encoder (PIL) and the OCR engine *)
(* (pytesseract) are outside the repository: each call either raises or    *)
(* returns, the choice being an input of the step that calls it.           *)
(*                                                                         *)
(* Three specifications share the module:                                  *)
(*   Spec        main() and extract_text_from_pdf() of pdf_extractor.py    *)
(*   SpecRaster  the five functions of extract_to_image.py                 *)
(*   SpecBin     the binarization lambda of pdf_extractor.py line 23       *)
(***************************************************************************)
EXTENDS Integers, Sequences, FiniteSets, TLC

VARIABLES
    \* ---- pdf_extractor.py ----
    files_dir_exists,  \* os.path.exists('files')
    listing,           \* os.listdir('files'), in the order the OS gives
    pdf_files,         \* main: the filtered list
    fileIdx,           \* main: position of the for loop in pdf_files (1-based)
    pc,                \* main: where the driver is
    images,            \* extract_text_from_pdf: the decoded pages
    i,                 \* extract_text_from_pdf: pages recognized so far
    all_text,          \* extract_text_from_pdf: list of page sections
    extracted_text,    \* main: value returned by extract_text_from_pdf
    out_files,         \* files of extracted_text/: path -> content
    outcome,           \* history: how the last extract_text_from_pdf call ended
    recognized,        \* history: texts the OCR engine returned in that call
    extracted,         \* history: file name -> text returned for it
    \* ---- extract_to_image.py ----
    op,                \* which function is called
    src_pages,         \* page count of the source, -1: unreadable or missing
    pages,             \* convert_specific_pages: the requested page numbers
    fmt,               \* the format argument
    rpc,               \* where the call is
    r_images,          \* the decoded pages (a page image is its page number)
    r_i,               \* the loop index of enumerate(...)
    image_paths,       \* paths saved so far
    result,            \* the returned value
    disk,              \* files of output_dir: path -> page image
    decode_failed,     \* history: the decoder raised in this call
    save_failed,       \* history: image.save raised in this call
    \* ---- the binarization lambda ----
    lum,               \* a grayscale luminance
    pixel              \* the output pixel, -1 before the lambda is applied

ocrVars == <<files_dir_exists, listing, pdf_files, fileIdx, pc, images, i,
             all_text, extracted_text, out_files, outcome, recognized,
             extracted>>
rasVars == <<op, src_pages, pages, fmt, rpc, r_images, r_i, image_paths,
             result, disk, decode_failed, save_failed>>
binVars == <<lum, pixel>>
vars == <<ocrVars, rasVars, binVars>>

(***************************************************************************)
(* Bounds of the model.                                                    *)
(***************************************************************************)
MaxFiles == 2   \* entries of the input directory
MaxPages == 2   \* pages of a document
MaxReq == 3     \* length of the page list given to convert_specific_pages

(***************************************************************************)
(* Strings.                                                                *)
(***************************************************************************)
Str(n) == ToString(n)

\* str.lower(), character by character
LowerChar(c) ==
    CASE c = "P" -> "p"
      [] c = "D" -> "d"
      [] c = "F" -> "f"
      [] c = "N" -> "n"
      [] c = "G" -> "g"
      [] c = "J" -> "j"
      [] c = "E" -> "e"
      [] OTHER -> c

Lower(s) == [k \in 1..Len(s) |-> LowerChar(s[k])]

\* str.upper(), character by character
UpperChar(c) ==
    CASE c = "p" -> "P"
      [] c = "d" -> "D"
      [] c = "f" -> "F"
      [] c = "n" -> "N"
      [] c = "g" -> "G"
      [] c = "j" -> "J"
      [] c = "e" -> "E"
      [] OTHER -> c

Upper(s) == [k \in 1..Len(s) |-> UpperChar(s[k])]

\* str.endswith
EndsWith(s, suf) ==
    /\ Len(s) >= Len(suf)
    /\ SubSeq(s, Len(s) - Len(suf) + 1, Len(s)) = suf

\* ''.join(list)
RECURSIVE Join(_)
Join(parts) ==
    IF parts = <<>> THEN <<>> ELSE Head(parts) \o Join(Tail(parts))

\* os.path.splitext(name)[0]: cut at the last dot, unless only dots precede it
SplitextStem(name) ==
    LET dots == {k \in 1..Len(name) : name[k] = "."}
        last == CHOOSE k \in dots : \A m \in dots : m <= k
    IN  IF dots = {} THEN name
        ELSE IF \A k \in 1..(last - 1) : name[k] = "." THEN name
        ELSE SubSeq(name, 1, last - 1)

PdfExt == <<".", "p", "d", "f">>

\* f.lower().endswith('.pdf')
IsPdfName(f) == EndsWith(Lower(f), PdfExt)

\* [f for f in os.listdir(files_dir) if f.lower().endswith('.pdf')]
FilterPdf(names) == SelectSeq(names, IsPdfName)

\* "extracted_text/" + os.path.splitext(pdf_file)[0] + '_extracted.txt'
OutputPath(pdf_file) ==
    <<"extracted_text/">> \o SplitextStem(pdf_file) \o <<"_extracted.txt">>

(***************************************************************************)
(* The parts of the state a specification does not use stay as they are.   *)
(***************************************************************************)
EmptyMap == [k \in {} |-> <<>>]

OcrIdle ==
    /\ files_dir_exists = FALSE /\ listing = <<>> /\ pdf_files = <<>>
    /\ fileIdx = 1 /\ pc = "idle" /\ images = <<>> /\ i = 0
    /\ all_text = <<>> /\ extracted_text = <<>> /\ out_files = EmptyMap
    /\ outcome = "none" /\ recognized = <<>> /\ extracted = EmptyMap

RasterIdle ==
    /\ op = "none" /\ src_pages = 0 /\ pages = <<>> /\ fmt = <<>>
    /\ rpc = "idle" /\ r_images = <<>> /\ r_i = 0 /\ image_paths = <<>>
    /\ result = [type |-> "none", value |-> <<>>] /\ disk = EmptyMap
    /\ decode_failed = FALSE /\ save_failed = FALSE

BinIdle == lum = 0 /\ pixel = -1

(***************************************************************************)
(* src/pdf_extractor.py                                                    *)
(***************************************************************************)

\* Names the input directory may hold: two PDFs whose names differ only in
\* the case of the extension, a third PDF, and a file that is no PDF.
FileNames ==
    { <<"a", ".", "p", "d", "f">>, <<"a", ".", "P", "D", "F">>,
      <<"b", ".", "p", "d", "f">>, <<"n", ".", "t", "x", "t">> }

\* A directory listing: distinct names, in any order.
Listings ==
    UNION { { s \in [1..n -> FileNames] :
                \A j, k \in 1..n : j # k => s[j] # s[k] } : n \in 0..MaxFiles }

\* Texts the OCR engine may return for a page.
Texts == { <<>>, <<"ka">> }

\* A file left in extracted_text/ by an earlier run.
StaleOutput == OutputPath(<<"a", ".", "p", "d", "f">>) :> <<"old">>

\* f"Page {i+1}:\n{text}\n\n", idx being enumerate's 0-based index
PageSectionZeroBased(idx, text) ==
    <<"Page ", Str(idx), ":\n">> \o text \o <<"\n\n">>

PageSection(idx, text) ==
    <<"Page ", Str(idx + 1), ":\n">> \o text \o <<"\n\n">>

\* except Exception: print; return ""  (the sections gathered are dropped)
ExceptReturnPartial(sections) == Join(sections)

ExceptReturn(sections) == <<>>

InitOcr ==
    /\ files_dir_exists \in BOOLEAN
    /\ listing \in Listings
    /\ files_dir_exists = FALSE => listing = <<>>
    /\ out_files \in {EmptyMap, StaleOutput}
    /\ pdf_files = <<>> /\ fileIdx = 1 /\ pc = "start"
    /\ images = <<>> /\ i = 0 /\ all_text = <<>> /\ extracted_text = <<>>
    /\ outcome = "none" /\ recognized = <<>> /\ extracted = EmptyMap
    /\ RasterIdle /\ BinIdle

\* main, lines 36-46: the directory test, the listing, the filter
ListFiles ==
    /\ pc = "start"
    /\ IF ~files_dir_exists
         THEN pc' = "returned" /\ UNCHANGED pdf_files
       ELSE IF FilterPdf(listing) = <<>>
         THEN pc' = "returned" /\ pdf_files' = <<>>
       ELSE pc' = "loop" /\ pdf_files' = FilterPdf(listing)
    /\ UNCHANGED <<files_dir_exists, listing, fileIdx, images, i, all_text,
                   extracted_text, out_files, outcome, recognized, extracted>>
    /\ UNCHANGED <<rasVars, binVars>>

\* main, lines 49-55: the for loop takes the next file and calls
\* extract_text_from_pdf
NextFile ==
    /\ pc = "loop" /\ fileIdx <= Len(pdf_files)
    /\ pc' = "extract"
    /\ UNCHANGED <<files_dir_exists, listing, pdf_files, fileIdx, images, i,
                   all_text, extracted_text, out_files, outcome, recognized,
                   extracted>>
    /\ UNCHANGED <<rasVars, binVars>>

\* extract_text_from_pdf, lines 10-15 and 30-32: convert_from_path returns
\* the n pages of the document or raises
Rasterize ==
    /\ pc = "extract"
    /\ \E n \in -1..MaxPages :
         IF n < 0
           THEN /\ outcome' = "decode_failed"
                /\ extracted_text' = ExceptReturn(<<>>)
                /\ extracted' = (pdf_files[fileIdx] :> ExceptReturn(<<>>)) @@ extracted
                /\ pc' = "write"
                /\ images' = <<>>
           ELSE /\ outcome' = "running"
                /\ images' = [k \in 1..n |-> k]
                /\ pc' = "page"
                /\ UNCHANGED <<extracted_text, extracted>>
    /\ i' = 0 /\ all_text' = <<>> /\ recognized' = <<>>
    /\ UNCHANGED <<files_dir_exists, listing, pdf_files, fileIdx, out_files>>
    /\ UNCHANGED <<rasVars, binVars>>

\* extract_text_from_pdf, lines 16-27 and 30-32: one turn of the page loop;
\* image_to_string returns a text or raises
RecognizePage ==
    /\ pc = "page" /\ i < Len(images)
    /\ \/ \E text \in Texts :
            /\ all_text' = Append(all_text, PageSection(i, text))
            /\ recognized' = Append(recognized, text)
            /\ i' = i + 1
            /\ UNCHANGED <<pc, outcome, extracted_text, extracted>>
       \/ /\ outcome' = "ocr_failed"
          /\ extracted_text' = ExceptReturn(all_text)
          /\ extracted' = (pdf_files[fileIdx] :> ExceptReturn(all_text)) @@ extracted
          /\ pc' = "write"
          /\ UNCHANGED <<all_text, recognized, i>>
    /\ UNCHANGED <<files_dir_exists, listing, pdf_files, fileIdx, images,
                   out_files>>
    /\ UNCHANGED <<rasVars, binVars>>

\* extract_text_from_pdf, line 29: return ''.join(all_text)
ReturnText ==
    /\ pc = "page" /\ i = Len(images)
    /\ outcome' = "ok"
    /\ extracted_text' = Join(all_text)
    /\ extracted' = (pdf_files[fileIdx] :> Join(all_text)) @@ extracted
    /\ pc' = "write"
    /\ UNCHANGED <<files_dir_exists, listing, pdf_files, fileIdx, images, i,
                   all_text, out_files, recognized>>
    /\ UNCHANGED <<rasVars, binVars>>

\* main, lines 58-62: open(output_path, 'w') and f.write, outside any try.
\* open may raise (extracted_text/ is never created by the program); write
\* may raise after open has truncated the file.
WriteOutput ==
    /\ pc = "write"
    /\ \E how \in {"ok", "open_raises", "write_raises"} :
         CASE how = "ok" ->
                /\ out_files' = (OutputPath(pdf_files[fileIdx]) :> extracted_text) @@ out_files
                /\ fileIdx' = fileIdx + 1
                /\ pc' = "loop"
           [] how = "open_raises" ->
                /\ pc' = "raised"
                /\ UNCHANGED <<out_files, fileIdx>>
           [] how = "write_raises" ->
                /\ out_files' = (OutputPath(pdf_files[fileIdx]) :> <<>>) @@ out_files
                /\ pc' = "raised"
                /\ UNCHANGED fileIdx
    /\ UNCHANGED <<files_dir_exists, listing, pdf_files, images, i, all_text,
                   extracted_text, outcome, recognized, extracted>>
    /\ UNCHANGED <<rasVars, binVars>>

\* main, line 64: the loop is exhausted, "All files processed."
Finish ==
    /\ pc = "loop" /\ fileIdx > Len(pdf_files)
    /\ pc' = "done"
    /\ UNCHANGED <<files_dir_exists, listing, pdf_files, fileIdx, images, i,
                   all_text, extracted_text, out_files, outcome, recognized,
                   extracted>>
    /\ UNCHANGED <<rasVars, binVars>>

NextOcr ==
    \/ ListFiles
    \/ NextFile
    \/ Rasterize
    \/ RecognizePage
    \/ ReturnText
    \/ WriteOutput
    \/ Finish

Spec == InitOcr /\ [][NextOcr]_vars

(***************************************************************************)
(* Properties of the OCR pipeline and the batch driver (under Spec).       *)
(***************************************************************************)

\* C1: with PDF files found in the input directory, no failure while one
\* document is processed aborts the run: main never ends by an exception,
\* whatever step failed (rasterization, recognition, writing the output).
BatchNeverAborts == pdf_files # <<>> => pc # "raised"

\* C3: when rasterization fails, or recognition fails at some page k, control
\* is back in main with the empty string: the sections gathered for pages
\* 1..k-1 are not in the result.
FailureYieldsEmpty ==
    (pc = "write" /\ outcome \in {"decode_failed", "ocr_failed"}) =>
        /\ extracted_text = <<>>
        /\ extracted[pdf_files[fileIdx]] = <<>>

\* C3 witness: recognition failed at page 2, the section of page 1 was
\* gathered, and the call returned the empty string.
FailureAtSecondPage ==
    /\ pc = "write" /\ outcome = "ocr_failed"
    /\ i = 1 /\ Len(all_text) = 1 /\ Len(images) = 2
    /\ extracted_text = <<>>

\* C5: once the run is over, every input file has an output file of its own,
\* <stem>_extracted.txt, holding exactly the text extracted from that input.
OneOutputPerInput ==
    pc = "done" =>
        \A k \in 1..Len(pdf_files) :
            /\ OutputPath(pdf_files[k]) \in DOMAIN out_files
            /\ out_files[OutputPath(pdf_files[k])] = extracted[pdf_files[k]]
            /\ \A m \in 1..Len(pdf_files) :
                 m # k => OutputPath(pdf_files[m]) # OutputPath(pdf_files[k])

\* The text C7 expects for the recognized texts t_1..t_N: the sections of
\* pages 1..N in ascending order, built from the last page backwards.
RECURSIVE ExpectedText(_)
ExpectedText(texts) ==
    IF texts = <<>> THEN <<>>
    ELSE ExpectedText(SubSeq(texts, 1, Len(texts) - 1))
           \o <<"Page ", ToString(Len(texts)), ":\n">>
           \o texts[Len(texts)]
           \o <<"\n\n">>

\* C7: when every page of an N-page document is rasterized and recognized,
\* the result is, for i = 1..N in ascending order, 'Page i:', a newline, the
\* text of page i and a blank line, one section per page; and the file the
\* driver then writes holds that text.
SectionsInPageOrder ==
    /\ (pc = "write" /\ outcome = "ok") =>
          /\ Len(recognized) = Len(images)
          /\ extracted_text = ExpectedText(recognized)
    /\ (pc = "loop" /\ outcome = "ok") =>
          /\ OutputPath(pdf_files[fileIdx - 1]) \in DOMAIN out_files
          /\ out_files[OutputPath(pdf_files[fileIdx - 1])] = ExpectedText(recognized)

\* C7 witness: a two-page document, both pages recognized, its file written.
TwoPagesWritten ==
    /\ pc = "loop" /\ outcome = "ok" /\ Len(images) = 2
    /\ recognized = << <<"ka">>, <<>> >>
    /\ out_files[OutputPath(pdf_files[fileIdx - 1])] =
         <<"Page ", "1", ":\n", "ka", "\n\n", "Page ", "2", ":\n", "\n\n">>

(***************************************************************************)
(* src/extract_to_image.py                                                 *)
(***************************************************************************)

Ops ==
    { "convert_pdf_to_images", "convert_pdf_bytes_to_images",
      "convert_specific_pages", "convert_with_custom_settings",
      "get_pdf_info" }

\* Values of the format argument: two the encoder knows once upper-cased,
\* and "jpg", which it does not ("JPG" is no registered PIL format name).
Formats == { <<"P", "N", "G">>, <<"J", "p", "e", "g">>, <<"j", "p", "g">> }

EncoderFormats == { <<"P", "N", "G">>, <<"J", "P", "E", "G">> }

\* Page lists given to convert_specific_pages: any order, repetitions and
\* numbers past the end of the document included.
ReqLists == UNION { [1..n -> 1..(MaxPages + 1)] : n \in 0..MaxReq }

\* min(pages), max(pages), sorted(pages)
MinOf(s) == CHOOSE x \in {s[k] : k \in 1..Len(s)} : \A k \in 1..Len(s) : x <= s[k]

MaxOf(s) == CHOOSE x \in {s[k] : k \in 1..Len(s)} : \A k \in 1..Len(s) : x >= s[k]

Sorted(s) == SortSeq(s, LAMBDA a, b : a < b)

\* convert_from_path(..., first_page, last_page) on a readable n-page source:
\* the pages first..last, the range cut to the document (pdf2image clamps
\* first_page to 1 and last_page to the page count)
DecodePages(n, first, last) ==
    LET lo == IF first < 1 THEN 1 ELSE first
        hi == IF last > n THEN n ELSE last
    IN  [k \in 1..(hi - lo + 1) |-> lo + k - 1]

\* f"page_{i + 1}.{format.lower()}" joined to output_dir; idx is enumerate's
\* 0-based index
PagePathZeroBased(idx, format) ==
    <<"pdf_images", "/", "page_", Str(idx), ".">> \o Lower(format)

PagePath(idx, format) ==
    <<"pdf_images", "/", "page_", Str(idx + 1), ".">> \o Lower(format)

\* f"page_{page_num}.{format.lower()}" joined to output_dir
NumberedPath(page_num, format) ==
    <<"pdf_images", "/", "page_", Str(page_num), ".">> \o Lower(format)

\* image.save(filepath, format=format.upper()) can succeed only for a format
\* name the encoder has registered
EncoderKnows(format) == Upper(format) \in EncoderFormats

\* the except clauses: return [] (return {} in get_pdf_info); paths is what
\* image_paths holds when the exception is caught
ExceptResultAlwaysList(o, paths) == [type |-> "list", value |-> <<>>]

ExceptResultPartial(o, paths) ==
    IF o = "get_pdf_info" THEN [type |-> "dict", value |-> EmptyMap]
    ELSE [type |-> "list", value |-> paths]

ExceptResult(o, paths) ==
    IF o = "get_pdf_info" THEN [type |-> "dict", value |-> EmptyMap]
    ELSE [type |-> "list", value |-> <<>>]

\* get_pdf_info, lines 182-192: the info dict; without the guard of line 189
\* images[0] raises IndexError on a zero-page document and {} is returned
InfoDictNoGuard(imgs) ==
    IF imgs = <<>> THEN EmptyMap
    ELSE ("page_count" :> Len(imgs)) @@ ("file_size_mb" :> "getsize/2^20")
           @@ ("filename" :> "basename")
           @@ ("page_dimensions" :> <<"size", imgs[1]>>)
           @@ ("page_mode" :> <<"mode", imgs[1]>>)

InfoDict(imgs) ==
    ("page_count" :> Len(imgs)) @@ ("file_size_mb" :> "getsize/2^20")
      @@ ("filename" :> "basename")
      @@ (IF imgs # <<>>
            THEN ("page_dimensions" :> <<"size", imgs[1]>>)
                   @@ ("page_mode" :> <<"mode", imgs[1]>>)
            ELSE EmptyMap)

\* A file left in output_dir by an earlier call (image 0 is no page of the
\* source).
StaleImagePath == NumberedPath(1, <<"P", "N", "G">>)

StaleImage == StaleImagePath :> 0

InitRaster ==
    /\ op \in Ops
    /\ src_pages \in -1..MaxPages
    /\ pages \in ReqLists
    /\ op # "convert_specific_pages" => pages = <<>>
    /\ fmt \in Formats \cup {<<>>}
    /\ (fmt = <<>>) <=> (op = "get_pdf_info")
    /\ disk \in {EmptyMap, StaleImage}
    /\ rpc = IF op = "get_pdf_info" THEN "try" ELSE "start"
    /\ r_images = <<>> /\ r_i = 0 /\ image_paths = <<>>
    /\ result = [type |-> "none", value |-> <<>>]
    /\ decode_failed = FALSE /\ save_failed = FALSE
    /\ OcrIdle /\ BinIdle

\* lines 20, 55, 91, 147: os.makedirs(output_dir, exist_ok=True), before the
\* try; it may raise
Makedirs ==
    /\ rpc = "start"
    /\ \E ok \in BOOLEAN : rpc' = IF ok THEN "try" ELSE "raised"
    /\ UNCHANGED <<op, src_pages, pages, fmt, r_images, r_i, image_paths,
                   result, disk, decode_failed, save_failed>>
    /\ UNCHANGED <<ocrVars, binVars>>

\* lines 24, 59, 96, 151, 180: the decoder call, inside the try
Decode ==
    /\ rpc = "try"
    /\ IF op = "convert_specific_pages" /\ pages = <<>>
         THEN \* min([]) raises ValueError before the decoder is called
              /\ result' = ExceptResult(op, image_paths)
              /\ rpc' = "done"
              /\ UNCHANGED <<r_images, decode_failed>>
       ELSE IF src_pages < 0
         THEN /\ decode_failed' = TRUE
              /\ result' = ExceptResult(op, image_paths)
              /\ rpc' = "done"
              /\ UNCHANGED r_images
       ELSE /\ r_images' = IF op = "convert_specific_pages"
                             THEN DecodePages(src_pages, MinOf(pages), MaxOf(pages))
                             ELSE DecodePages(src_pages, 1, src_pages)
            /\ rpc' = IF op = "get_pdf_info" THEN "describe" ELSE "loop"
            /\ UNCHANGED <<result, decode_failed>>
    /\ UNCHANGED <<op, src_pages, pages, fmt, r_i, image_paths, disk,
                   save_failed>>
    /\ UNCHANGED <<ocrVars, binVars>>

\* get_pdf_info, lines 182-194
Describe ==
    /\ rpc = "describe"
    /\ result' = [type |-> "dict", value |-> InfoDict(r_images)]
    /\ rpc' = "done"
    /\ UNCHANGED <<op, src_pages, pages, fmt, r_images, r_i, image_paths,
                   disk, decode_failed, save_failed>>
    /\ UNCHANGED <<ocrVars, binVars>>

\* image.save(filepath, ...) followed by image_paths.append(filepath), or the
\* except clause when save raises
SaveOrFail(filepath, image) ==
    \/ /\ EncoderKnows(fmt)
       /\ disk' = (filepath :> image) @@ disk
       /\ image_paths' = Append(image_paths, filepath)
       /\ r_i' = r_i + 1
       /\ UNCHANGED <<rpc, result, save_failed>>
    \/ /\ save_failed' = TRUE
       /\ result' = ExceptResult(op, image_paths)
       /\ rpc' = "done"
       /\ UNCHANGED <<disk, image_paths, r_i>>

\* lines 28-33, 63-68, 155-160: one turn of "for i, image in enumerate(images)"
SavePage ==
    /\ rpc = "loop" /\ op # "convert_specific_pages"
    /\ r_i < Len(r_images)
    /\ SaveOrFail(PagePath(r_i, fmt), r_images[r_i + 1])
    /\ UNCHANGED <<op, src_pages, pages, fmt, r_images, decode_failed>>
    /\ UNCHANGED <<ocrVars, binVars>>

\* lines 100-107: one turn of "for i, page_num in enumerate(sorted(pages))"
SaveRequestedPage ==
    /\ rpc = "loop" /\ op = "convert_specific_pages"
    /\ r_i < Len(pages)
    /\ LET page_num == Sorted(pages)[r_i + 1]
           at == page_num - MinOf(pages)
       IN  IF ~(r_i < Len(r_images))
             THEN /\ r_i' = r_i + 1
                  /\ UNCHANGED <<rpc, result, disk, image_paths, save_failed>>
           ELSE IF at >= Len(r_images)
             THEN \* images[...] raises IndexError
                  /\ result' = ExceptResult(op, image_paths)
                  /\ rpc' = "done"
                  /\ UNCHANGED <<r_i, disk, image_paths, save_failed>>
           ELSE SaveOrFail(NumberedPath(page_num, fmt), r_images[at + 1])
    /\ UNCHANGED <<op, src_pages, pages, fmt, r_images, decode_failed>>
    /\ UNCHANGED <<ocrVars, binVars>>

\* lines 35, 70, 109, 162: return image_paths
ReturnPaths ==
    /\ rpc = "loop"
    /\ r_i = IF op = "convert_specific_pages" THEN Len(pages) ELSE Len(r_images)
    /\ result' = [type |-> "list", value |-> image_paths]
    /\ rpc' = "done"
    /\ UNCHANGED <<op, src_pages, pages, fmt, r_images, r_i, image_paths,
                   disk, decode_failed, save_failed>>
    /\ UNCHANGED <<ocrVars, binVars>>

NextRaster ==
    \/ Makedirs
    \/ Decode
    \/ Describe
    \/ SavePage
    \/ SaveRequestedPage
    \/ ReturnPaths

SpecRaster == InitRaster /\ [][NextRaster]_vars

(***************************************************************************)
(* Properties of the rasterizer (under SpecRaster).                        *)
(***************************************************************************)

\* The path a claim expects for page p: page_<p> with the requested
\* extension, in the output directory.
ExpectedPath(p) == <<"pdf_images", "/", "page_", ToString(p), ".">> \o Lower(fmt)

\* The page numbers of a list, ascending, each once.
RECURSIVE Ascending(_)
Ascending(S) ==
    IF S = {} THEN <<>>
    ELSE LET least == CHOOSE x \in S : \A y \in S : x <= y
         IN  <<least>> \o Ascending(S \ {least})

Requested == {pages[k] : k \in 1..Len(pages)}

\* C2: convert_specific_pages, called with a non-empty list P of page numbers
\* of the document in any order, returns exactly one path per page number of
\* P, page_<p>, ascending in p, and file page_<p> holds the image of page p.
\* (Stated for the calls in which no save fails.)
ExactlyRequestedPages ==
    ( /\ op = "convert_specific_pages" /\ rpc = "done"
      /\ pages # <<>> /\ src_pages >= 0 /\ ~save_failed
      /\ \A p \in Requested : p <= src_pages ) =>
        /\ result.type = "list"
        /\ result.value = [k \in 1..Cardinality(Requested) |->
                             ExpectedPath(Ascending(Requested)[k])]
        /\ \A p \in Requested :
             ExpectedPath(p) \in DOMAIN disk /\ disk[ExpectedPath(p)] = p

\* C4: when the decoder fails on the source, the call ends by returning the
\* empty list (the empty record for get_pdf_info); no exception reaches the
\* caller.
DecodeFailureIsSoft ==
    /\ decode_failed =>
         /\ rpc = "done"
         /\ result.value = <<>>
         /\ result.type = IF op = "get_pdf_info" THEN "dict" ELSE "list"
    /\ (src_pages < 0 /\ rpc = "done") => decode_failed \/ pages = <<>>

\* C4 witness: get_pdf_info on an unreadable source has returned {}.
DescribeUnreadable ==
    /\ op = "get_pdf_info" /\ src_pages < 0 /\ decode_failed
    /\ rpc = "done" /\ result = [type |-> "dict", value |-> EmptyMap]

\* C6, as stated: for a valid N-page PDF, convert returns the N paths page_1 ..
\* page_N in ascending order, file page_i holds the image of page i, and
\* these are the only files it writes.
ConvertWritesAllPages ==
    (op = "convert_pdf_to_images" /\ rpc = "done" /\ src_pages >= 0) =>
        /\ result.type = "list"
        /\ result.value = [k \in 1..src_pages |-> ExpectedPath(k)]
        /\ \A k \in 1..src_pages :
             ExpectedPath(k) \in DOMAIN disk /\ disk[ExpectedPath(k)] = k
        /\ DOMAIN disk \subseteq
             {ExpectedPath(k) : k \in 1..src_pages} \cup DOMAIN StaleImage

\* C6, amended: the same, for the calls in which every image.save succeeds.
ConvertWritesAllPagesWhenSavesSucceed ==
    (op = "convert_pdf_to_images" /\ rpc = "done" /\ src_pages >= 0
       /\ ~save_failed) =>
        /\ result.type = "list"
        /\ result.value = [k \in 1..src_pages |-> ExpectedPath(k)]
        /\ \A k \in 1..src_pages :
             ExpectedPath(k) \in DOMAIN disk /\ disk[ExpectedPath(k)] = k
        /\ DOMAIN disk \subseteq
             {ExpectedPath(k) : k \in 1..src_pages} \cup DOMAIN StaleImage

\* C6 witness: convert has returned the two paths of a two-page PDF, over a
\* stale page_1 of an earlier call.
ConvertedTwoPages ==
    /\ op = "convert_pdf_to_images" /\ rpc = "done" /\ src_pages = 2
    /\ ~save_failed /\ Len(result.value) = 2
    /\ fmt = <<"P", "N", "G">> /\ disk[StaleImagePath] = 1

\* C8: get_pdf_info on a readable PDF returns a record whose page count is the
\* number of decoded pages; the first-page dimension and colour-mode fields
\* are there exactly when the page count is at least 1.
DescribeCountsPages ==
    (op = "get_pdf_info" /\ rpc = "done" /\ src_pages >= 0) =>
        /\ result.type = "dict"
        /\ "page_count" \in DOMAIN result.value
        /\ result.value["page_count"] = src_pages
        /\ ("page_dimensions" \in DOMAIN result.value) <=> (src_pages >= 1)
        /\ ("page_mode" \in DOMAIN result.value) <=> (src_pages >= 1)

\* C8 witness: a zero-page PDF described: page count 0, no dimension field.
DescribedEmptyPdf ==
    /\ op = "get_pdf_info" /\ rpc = "done" /\ src_pages = 0
    /\ DOMAIN result.value = {"page_count", "file_size_mb", "filename"}
    /\ result.value["page_count"] = 0

\* C10: when a save fails, the call returns the empty list and every file it
\* had written before stays in the output directory with the page it was
\* given; in convert, convert from bytes and convertWithSettings these are
\* the files of the k-1 pages before the failing one.
NoRollbackOnSaveFailure ==
    (save_failed /\ rpc = "done") =>
        /\ result = [type |-> "list", value |-> <<>>]
        /\ \A k \in 1..Len(image_paths) : image_paths[k] \in DOMAIN disk
        /\ op # "convert_specific_pages" =>
             /\ Len(image_paths) = r_i
             /\ \A k \in 1..r_i : disk[ExpectedPath(k)] = k

\* C10 witness: convert_specific_pages failed to save its second page; the
\* first is on disk and the call returned [].
SecondSaveFailed ==
    /\ op = "convert_specific_pages" /\ save_failed /\ rpc = "done"
    /\ Len(image_paths) = 1 /\ image_paths[1] \in DOMAIN disk
    /\ result.value = <<>>

(***************************************************************************)
(* The binarization step: image.point(lambda x: 0 if x < 128 else 255, '1') *)
(* on a mode 'L' image, whose pixels are 0..255.                           *)
(***************************************************************************)
Threshold == 128
Black == 0
White == 255
MaxLum == 255

PointInclusive(x) == IF x <= Threshold THEN Black ELSE White

Point(x) == IF x < Threshold THEN Black ELSE White

InitBin ==
    /\ lum \in 0..MaxLum
    /\ pixel = -1
    /\ OcrIdle /\ RasterIdle

\* pdf_extractor.py, line 23: the lambda applied to one pixel
Binarize ==
    /\ pixel = -1
    /\ pixel' = Point(lum)
    /\ UNCHANGED lum
    /\ UNCHANGED <<ocrVars, rasVars>>

NextBin == Binarize

SpecBin == InitBin /\ [][NextBin]_vars

\* C9: for every luminance x in 0..255 the output pixel is black (0) when
\* x < 128 and white (255) when x >= 128; 127 gives black, 128 gives white.
BinarizeAt128 ==
    pixel # -1 =>
        /\ lum < 128 => pixel = 0
        /\ lum >= 128 => pixel = 255
        /\ lum = 127 => pixel = 0
        /\ lum = 128 => pixel = 255

\* C9 witness: luminance 128, the lower end of white, has been binarized.
Binarized128 == lum = 128 /\ pixel = 255

====
